---- MODULE Spec2Model ----
(***************************************************************************)
(* Listing cache-aside gateway: the request handlers of                    *)
(* src/api/listingProperty/listingProperty.service.js over a persistence   *)
(* store (listingProperty.queries) and a Redis cache.                      *)
(*                                                                         *)
(* JavaScript values are tagged records [t |-> <type>, v |-> <payload>],   *)
(* so that a string, a number, an ObjectId and undefined stay different    *)
(* values and the conversions between them are visible.                    *)
(***************************************************************************)
EXTENDS Integers, Sequences, FiniteSets, TLC

(***************************************************************************)
(* Bounds                                                                  *)
(***************************************************************************)
\* properties ever created in one behaviour
MaxProps == 2
\* search parameters other than the seven scalar filters present at once
\* in the filter-builder specification
MaxOther == 1
\* requests handled in one behaviour
MaxRequests == 3

(***************************************************************************)
(* JavaScript values                                                       *)
(***************************************************************************)
Undefined == [t |-> "undefined"]
Null == [t |-> "null"]
NaN == [t |-> "NaN"]
Infinity == [t |-> "Infinity"]
Str(s) == [t |-> "string", v |-> s]
Num(n) == [t |-> "number", v |-> n]
Bool(b) == [t |-> "boolean", v |-> b]
Arr(s) == [t |-> "array", v |-> s]
Oid(h) == [t |-> "ObjectId", v |-> h]
DateOf(s) == [t |-> "Date", v |-> s]
Thrown(e) == [t |-> "throw", v |-> e]

IsThrown(x) == x.t = "throw"

\* truthiness that takes the JSON text of an empty list for false
Truthy_EmptyListFalsy(x) ==
    CASE x.t = "undefined" -> FALSE
      [] x.t = "null" -> FALSE
      [] x.t = "NaN" -> FALSE
      [] x.t = "string" -> x.v # ""
      [] x.t = "number" -> x.v # 0
      [] x.t = "boolean" -> x.v
      [] x.t = "json" -> x.v # <<>>
      [] OTHER -> TRUE

\* JavaScript truthiness, as `if (x)` evaluates it
Truthy(x) ==
    CASE x.t = "undefined" -> FALSE
      [] x.t = "null" -> FALSE
      [] x.t = "NaN" -> FALSE
      [] x.t = "string" -> x.v # ""
      [] x.t = "number" -> x.v # 0
      [] x.t = "boolean" -> x.v
      [] OTHER -> TRUE

\* typeof x === 'string'
IsString(x) == x.t = "string"

\* the 24-hex-digit strings of the model: callers, properties, references
UserIds == {"u1", "u2"}
PidStr == <<"p1", "p2", "p3", "p4">>
PropIds == {PidStr[i] : i \in 1..Len(PidStr)}
RefIds == {"a1", "a2"}
Hex24 == UserIds \cup PropIds \cup RefIds

\* new ObjectId(x): a 24-hex string or an ObjectId converts, anything else throws
ObjectId(x) ==
    CASE x.t = "ObjectId" -> x
      [] x.t = "string" /\ x.v \in Hex24 -> Oid(x.v)
      [] OTHER -> Thrown("BSONError")

\* the decimal strings of the model
NumStr == <<"0", "1", "2", "3">>

\* the parameter passed on as the string it is
Number_NoConvert(x) == x

\* Number(x) of a string: "" is 0, a decimal string its value, "Infinity" the
\* infinite number, anything else NaN
Number(x) ==
    CASE x.t = "number" -> x
      [] x.t = "string" /\ x.v = "" -> Num(0)
      [] x.t = "string" /\ x.v = "Infinity" -> Infinity
      [] x.t = "string" /\ (\E i \in 1..Len(NumStr) : NumStr[i] = x.v) ->
            Num((CHOOSE i \in 1..Len(NumStr) : NumStr[i] = x.v) - 1)
      [] OTHER -> NaN

\* the empty object {}
EmptyObj == [k \in {} |-> Undefined]

\* { ...a, ...b }: b's fields override a's
Spread(a, b) ==
    [k \in (DOMAIN a) \cup (DOMAIN b) |-> IF k \in DOMAIN b THEN b[k] ELSE a[k]]

\* obj.k = val when cond holds
SetIf(cond, k, val) == IF cond THEN (k :> val) ELSE EmptyObj

\* arr.map(id => new ObjectId(id))
MapObjectId(a) == [i \in 1..Len(a.v) |-> ObjectId(a.v[i])]

(***************************************************************************)
(* Filter builder: getProperties, lines 8-52                               *)
(***************************************************************************)
ScalarParams ==
    {"minPrice", "maxPrice", "minBedrooms", "minBathrooms", "minRating",
     "listingType", "furnished"}
OtherParams ==
    {"typeId", "stateId", "cityId", "title", "availableFrom", "amenityIds", "tagIds"}
Params == ScalarParams \cup OtherParams

ValidDates == {"2024-01-01"}

\* new Date(x): an unparseable string gives the Invalid Date object, no exception
NewDate(x) ==
    IF x.t = "string" /\ x.v \in ValidDates THEN DateOf(x.v) ELSE DateOf("Invalid Date")

\* a single string replaced by the empty list
Processed_Empty(x) == IF Truthy(x) /\ IsString(x) THEN Arr(<<>>) ELSE x

\* amenityIds / tagIds: a single string is wrapped into a one-element array
Processed(x) == IF Truthy(x) /\ IsString(x) THEN Arr(<<x>>) ELSE x

\* findQuery as the code fills it, key by key; q maps every parameter name to
\* its value in req.query, Undefined when the parameter is absent
FindQuery(q) ==
    SetIf(Truthy(q.typeId), "typeId", ObjectId(q.typeId))
    @@ SetIf(Truthy(q.stateId), "stateId", ObjectId(q.stateId))
    @@ SetIf(Truthy(q.cityId), "cityId", ObjectId(q.cityId))
    @@ SetIf(Truthy(q.title), "title", ("$regex" :> q.title) @@ ("$options" :> Str("i")))
    @@ SetIf(Truthy(q.availableFrom), "availableFrom", ("$lte" :> NewDate(q.availableFrom)))
    @@ SetIf(Truthy(q.minPrice) \/ Truthy(q.maxPrice), "price",
             SetIf(Truthy(q.minPrice), "$gte", Number(q.minPrice))
             @@ SetIf(Truthy(q.maxPrice), "$lte", Number(q.maxPrice)))
    @@ SetIf(Truthy(q.minBedrooms), "bedrooms", ("$gte" :> Number(q.minBedrooms)))
    @@ SetIf(Truthy(q.minBathrooms), "bathrooms", ("$gte" :> Number(q.minBathrooms)))
    @@ SetIf(Truthy(q.minRating), "rating", ("$gte" :> Number(q.minRating)))
    @@ SetIf(Truthy(q.listingType), "listingType", q.listingType)
    @@ SetIf(Truthy(q.furnished), "furnished", q.furnished)
    @@ SetIf(Truthy(Processed(q.amenityIds)), "amenityIds",
             ("$all" :> Arr(MapObjectId(Processed(q.amenityIds)))))
    @@ SetIf(Truthy(Processed(q.tagIds)), "tagIds",
             ("$all" :> Arr(MapObjectId(Processed(q.tagIds)))))

\* a constraint is a plain value (it has a type tag) or an operator object
IsValue(c) == "t" \in DOMAIN c

\* building the filter ends in the catch block: some new ObjectId(...) threw
FilterThrows(f) ==
    \E k \in DOMAIN f :
        IF IsValue(f[k]) THEN IsThrown(f[k])
        ELSE \E o \in DOMAIN f[k] :
                f[k][o].t = "array"
                /\ \E i \in 1..Len(f[k][o].v) : IsThrown(f[k][o].v[i])

(***************************************************************************)
(* JSON.stringify / JSON.parse                                             *)
(***************************************************************************)
\* the JSON form of one value: an ObjectId becomes its hex string, a Date its
\* ISO string, NaN, Infinity and Invalid Date become null
ToJSONValue(x) ==
    CASE x.t = "ObjectId" -> Str(x.v)
      [] x.t = "Date" -> IF x.v = "Invalid Date" THEN Null ELSE Str(x.v)
      [] x.t = "NaN" -> Null
      [] x.t = "Infinity" -> Null
      [] x.t = "undefined" -> Null
      [] x.t = "array" -> Arr([i \in 1..Len(x.v) |->
                                 CASE x.v[i].t = "ObjectId" -> Str(x.v[i].v)
                                   [] x.v[i].t = "NaN" -> Null
                                   [] x.v[i].t = "undefined" -> Null
                                   [] OTHER -> x.v[i]])
      [] OTHER -> x

\* the JSON form of a flat object; a field holding undefined is left out
ToJSONObj(o) ==
    [k \in {j \in DOMAIN o : o[j].t # "undefined"} |-> ToJSONValue(o[k])]

\* the JSON form of a filter; keys keep their insertion order, which the code
\* fixes, so the text is a function of the keys and their values
ToJSONFilter(f) ==
    [k \in DOMAIN f |-> IF IsValue(f[k]) THEN ToJSONValue(f[k]) ELSE ToJSONObj(f[k])]

\* JSON.stringify(x) is a non-empty string holding the JSON form
Json(j) == [t |-> "json", v |-> j]
StringifyFilter(f) == Json(ToJSONFilter(f))
StringifyList(l) == Json([i \in 1..Len(l) |-> ToJSONObj(l[i])])

\* JSON.parse(s): the JSON form itself (strings stay strings: no ObjectId or
\* Date comes back)
JSONParse(s) == s.v

(***************************************************************************)
(* Persistence store: listingProperty.queries over the property collection *)
(***************************************************************************)
\* fields the schema types as identifiers
IdFields == {"_id", "listerId"}

\* a document is stored with its identifier fields in the native type
CastDoc(d) == [k \in DOMAIN d |-> IF k \in IdFields THEN ObjectId(d[k]) ELSE d[k]]

\* the value a filter compares a field with: the query layer either casts an
\* identifier given as a string to the native type or compares it as it is
FilterValue(k, x, casts) == IF casts /\ k \in IdFields THEN ObjectId(x) ELSE x

\* the query call rejects: an identifier that cannot be cast
QueryThrows(f, casts) ==
    \E k \in DOMAIN f : IsValue(f[k]) /\ IsThrown(FilterValue(k, f[k], casts))

\* one operator of an operator object against a stored value; no stored number
\* compares with NaN, every stored number is below Infinity
OpHolds(o, arg, x) ==
    CASE o = "$gte" -> x.t = "number" /\ arg.t = "number" /\ x.v >= arg.v
      [] o = "$lte" -> x.t = "number"
                       /\ (arg.t = "Infinity" \/ (arg.t = "number" /\ x.v <= arg.v))
      [] o = "$all" -> x.t = "array"
                       /\ \A i \in 1..Len(arg.v) : \E j \in 1..Len(x.v) : x.v[j] = arg.v[i]
      [] OTHER -> FALSE

\* a document matches a filter: every key's constraint holds of that field
Matches(f, rec, casts) ==
    \A k \in DOMAIN f :
        /\ k \in DOMAIN rec
        /\ IF IsValue(f[k]) THEN rec[k] = FilterValue(k, f[k], casts)
           ELSE \A o \in DOMAIN f[k] : OpHolds(o, f[k][o], rec[k])

\* find(filter): the matching documents in collection order
Find(coll, f, casts) == SelectSeq(coll, LAMBDA rec : Matches(f, rec, casts))

\* position of the first matching document, 0 when none matches
FirstMatch(coll, f, casts) ==
    IF \E i \in 1..Len(coll) : Matches(f, coll[i], casts)
    THEN CHOOSE i \in 1..Len(coll) :
            /\ Matches(f, coll[i], casts)
            /\ \A j \in 1..(i - 1) : ~Matches(f, coll[j], casts)
    ELSE 0

RemoveAt(coll, i) == [j \in 1..(Len(coll) - 1) |-> IF j < i THEN coll[j] ELSE coll[j + 1]]

\* the document createProperty stores: the store assigns _id
Created(doc, n) == CastDoc(Spread(doc, "_id" :> Oid(PidStr[n + 1])))

\* the document updateProperty leaves: { $set: updateData } over the match
Updated(rec, set) == Spread(rec, CastDoc(set))

\* the reference collections: fixed lists, no handler changes them
RefList(kind) == << ("_id" :> Oid("a1")) @@ ("name" :> Str(kind)) >>

(***************************************************************************)
(* Cache store: the Redis commands the handlers issue                      *)
(***************************************************************************)
PROPERTY_CACHE_TTL == "PROPERTY_CACHE_TTL"
CACHE_TTL == "CACHE_TTL"

\* `properties:${JSON.stringify(findQuery)}`
PropertiesKey(f) == [prefix |-> "properties:", rest |-> StringifyFilter(f)]
\* `myProperties:${req.user.id}`
MyPropertiesKey(u) == [prefix |-> "myProperties:", rest |-> Str(u)]
\* 'cities', 'states', 'propertyTypes', 'propertyTags', 'amenities'
RefKey(kind) == [prefix |-> kind, rest |-> Str("")]
\* the argument of redis.del('properties:*')
PatternArg == [prefix |-> "properties:", rest |-> Str("*")]

\* GET key: the stored string, null when the key is absent
RedisGet(c, k) == IF k \in DOMAIN c THEN c[k].value ELSE Null

\* SET key value: the entry is stored without an expiry
RedisSetex_NoExpiry(c, k, ttl, val) ==
    [j \in (DOMAIN c) \cup {k} |-> IF j = k THEN [value |-> val, ttl |-> "none"] ELSE c[j]]

\* SETEX key seconds value
RedisSetex(c, k, ttl, val) ==
    [j \in (DOMAIN c) \cup {k} |-> IF j = k THEN [value |-> val, ttl |-> ttl] ELSE c[j]]

\* DEL key: removes the key named by its argument; DEL takes key names, not
\* patterns
RedisDel(c, k) == [j \in (DOMAIN c) \ {k} |-> c[j]]

(***************************************************************************)
(* State                                                                   *)
(***************************************************************************)
VARIABLES
    db,           \* the property collection, in insertion order
    created,      \* number of properties created so far
    castsFilter,  \* whether the query layer casts identifier strings in filters
    cache,        \* Redis: key -> [value, ttl], over the keys that are present
    resp,         \* what the last request sent: res.status().json() or next(error)
    trace,        \* what the last request did: its store and cache calls
    query,        \* req.query of the last search
    findQuery,    \* the filter the last search built
    served,       \* requests handled so far
    rd,           \* the search in flight between two of its awaits, NoRead when none
    wr,           \* the write in flight between two of its awaits, NoWrite when none
    raced         \* the entry a search populated after a write overtook it

vars == <<db, created, castsFilter, cache, resp, trace, query, findQuery, served,
          rd, wr, raced>>

\* readings of Date.now().toString(): the n-th creation reads the n-th, creations
\* being taken to fall in different milliseconds
ClockStr == <<"1700000000000", "1700000000001", "1700000000002", "1700000000003">>

NoKey == [prefix |-> "", rest |-> Str("")]
NoQuery == [p \in Params |-> Undefined]

\* res.status(s).json({ message: m, <field>: data })
ResJson(s, m, data) == [kind |-> "json", status |-> s, message |-> m, data |-> data]
\* next(error)
NextErr(e) == [kind |-> "next", status |-> 0, message |-> e, data |-> Null]
NoResp == [kind |-> "none", status |-> 0, message |-> "", data |-> Null]

\* the payload as the response carries it: res.json serialises it
WireList(l) == [t |-> "list", v |-> [i \in 1..Len(l) |-> ToJSONObj(l[i])]]
WireObj(o) == [t |-> "object", v |-> ToJSONObj(o)]

\* dels: the arguments of the redis.del calls made; evicted: the keys they removed
Trace(op, user, key, hit, dbCalls, setexCalls, dels, evicted, failed, case) ==
    [op |-> op, user |-> user, key |-> key, hit |-> hit,
     dbCalls |-> dbCalls, setexCalls |-> setexCalls, dels |-> dels,
     evicted |-> evicted, failed |-> failed, case |-> case]
NoTrace == Trace("none", "", NoKey, FALSE, 0, 0, <<>>, {}, FALSE, "")

\* a search between its awaits: pc is the await it has passed, f and key its
\* findQuery and cacheKey, result its local `result`; seen and before record a
\* write that persisted after the search queried, and the collection before it
NoRead ==
    [pc |-> "idle", f |-> EmptyObj, key |-> NoKey, result |-> <<>>,
     seen |-> "none", before |-> <<>>]
\* a write between its awaits: dels are the redis.del calls still to make, out
\* the document the persistence call returned
NoWrite ==
    [pc |-> "idle", op |-> "", user |-> "", dels |-> <<>>, out |-> Null,
     calls |-> <<>>, evicted |-> {}, case |-> "", first |-> FALSE]
NoRace == [key |-> NoKey, value |-> Null]

Init ==
    /\ db = <<>>
    /\ created = 0
    /\ castsFilter \in BOOLEAN
    /\ cache = EmptyObj
    /\ resp = NoResp
    /\ trace = NoTrace
    /\ query = NoQuery
    /\ findQuery = EmptyObj
    /\ served = 0
    /\ rd = NoRead
    /\ wr = NoWrite
    /\ raced = NoRace

\* a request is taken up: at most MaxRequests in one behaviour
Started ==
    /\ served < MaxRequests
    /\ served' = served + 1

\* a request is taken up and runs to its response with no other request's
\* step in between
Served ==
    /\ Started
    /\ UNCHANGED <<rd, wr, raced>>

(***************************************************************************)
(* Cache-aside read path, shared by the seven read handlers                *)
(***************************************************************************)
\* a read path that, on a miss, answers without populating the cache
ReadOutcome_NoPopulate(c, key, ttl, okMsg, hitMsg, result, rejects, fail) ==
    LET cached == RedisGet(c, key) IN
    IF fail = "get" THEN
        [cache |-> c, resp |-> NextErr("StoreError"),
         dbCalls |-> 0, setexCalls |-> 0, failed |-> TRUE]
    ELSE IF Truthy(cached) THEN
        [cache |-> c, resp |-> ResJson(200, hitMsg, WireList(JSONParse(cached))),
         dbCalls |-> 0, setexCalls |-> 0, failed |-> FALSE]
    ELSE IF fail = "query" \/ rejects THEN
        [cache |-> c, resp |-> NextErr("StoreError"),
         dbCalls |-> 1, setexCalls |-> 0, failed |-> TRUE]
    ELSE
        [cache |-> c, resp |-> ResJson(200, okMsg, WireList(result)),
         dbCalls |-> 1, setexCalls |-> 0, failed |-> FALSE]

\* a read path that catches a failed cache population and answers with the
\* persistence result
ReadOutcome_SwallowSetex(c, key, ttl, okMsg, hitMsg, result, rejects, fail) ==
    LET cached == RedisGet(c, key) IN
    IF fail = "get" THEN
        [cache |-> c, resp |-> NextErr("StoreError"),
         dbCalls |-> 0, setexCalls |-> 0, failed |-> TRUE]
    ELSE IF Truthy(cached) THEN
        [cache |-> c, resp |-> ResJson(200, hitMsg, WireList(JSONParse(cached))),
         dbCalls |-> 0, setexCalls |-> 0, failed |-> FALSE]
    ELSE IF fail = "query" \/ rejects THEN
        [cache |-> c, resp |-> NextErr("StoreError"),
         dbCalls |-> 1, setexCalls |-> 0, failed |-> TRUE]
    ELSE IF fail = "setex" THEN
        [cache |-> c, resp |-> ResJson(200, okMsg, WireList(result)),
         dbCalls |-> 1, setexCalls |-> 1, failed |-> TRUE]
    ELSE
        [cache |-> RedisSetex(c, key, ttl, StringifyList(result)),
         resp |-> ResJson(200, okMsg, WireList(result)),
         dbCalls |-> 1, setexCalls |-> 1, failed |-> FALSE]

\* the store and cache calls a read makes when none fails: a hit stops at the
\* lookup
ReadCalls(c, key) ==
    IF Truthy(RedisGet(c, key)) THEN <<"get">> ELSE <<"get", "query", "setex">>

\* a failure can be injected only into a call the request makes
FailReached(fail, calls) == fail = "none" \/ \E n \in 1..Len(calls) : calls[n] = fail

\* fail names the store call of this request that fails, "none" when none does
ReadOutcome(c, key, ttl, okMsg, hitMsg, result, rejects, fail) ==
    LET cached == RedisGet(c, key) IN
    IF fail = "get" THEN
        [cache |-> c, resp |-> NextErr("StoreError"),
         dbCalls |-> 0, setexCalls |-> 0, failed |-> TRUE]
    ELSE IF Truthy(cached) THEN
        [cache |-> c, resp |-> ResJson(200, hitMsg, WireList(JSONParse(cached))),
         dbCalls |-> 0, setexCalls |-> 0, failed |-> FALSE]
    ELSE IF fail = "query" \/ rejects THEN
        [cache |-> c, resp |-> NextErr(IF fail = "query" THEN "StoreError" ELSE "CastError"),
         dbCalls |-> 1, setexCalls |-> 0, failed |-> TRUE]
    ELSE IF fail = "setex" THEN
        [cache |-> c, resp |-> NextErr("StoreError"),
         dbCalls |-> 1, setexCalls |-> 1, failed |-> TRUE]
    ELSE
        [cache |-> RedisSetex(c, key, ttl, StringifyList(result)),
         resp |-> ResJson(200, okMsg, WireList(result)),
         dbCalls |-> 1, setexCalls |-> 1, failed |-> FALSE]

ReadFails == {"none", "get", "query", "setex"}

getProperties(q, fail) ==
    LET f == FindQuery(q)
        key == PropertiesKey(f)
        out == ReadOutcome(cache, key, PROPERTY_CACHE_TTL,
                           "Properties fetched successfully",
                           "Properties fetched successfully from cache",
                           Find(db, f, castsFilter), QueryThrows(f, castsFilter), fail)
    IN
    /\ Served
    /\ FailReached(fail, IF FilterThrows(f) THEN <<>> ELSE ReadCalls(cache, key))
    /\ query' = q
    /\ findQuery' = f
    /\ UNCHANGED <<db, created, castsFilter>>
    /\ IF FilterThrows(f) THEN
            /\ cache' = cache
            /\ resp' = NextErr("BSONError")
            /\ trace' = Trace("getProperties", "", NoKey, FALSE, 0, 0, <<>>, {}, FALSE, "")
       ELSE
            /\ cache' = out.cache
            /\ resp' = out.resp
            /\ trace' = Trace("getProperties", "", key, key \in DOMAIN cache,
                              out.dbCalls, out.setexCalls, <<>>, {}, out.failed, "")

getMyProperties(u, fail) ==
    LET f == ("listerId" :> ObjectId(Str(u)))
        key == MyPropertiesKey(u)
        out == ReadOutcome(cache, key, PROPERTY_CACHE_TTL,
                           "My properties fetched successfully",
                           "My properties fetched successfully from cache",
                           Find(db, f, castsFilter), QueryThrows(f, castsFilter), fail)
    IN
    /\ Served
    /\ FailReached(fail, ReadCalls(cache, key))
    /\ cache' = out.cache
    /\ resp' = out.resp
    /\ trace' = Trace("getMyProperties", u, key, key \in DOMAIN cache,
                      out.dbCalls, out.setexCalls, <<>>, {}, out.failed, "")
    /\ UNCHANGED <<db, created, castsFilter, query, findQuery>>

\* getCity, getState, getPropertyType, getPropertyTag, getAmenity
RefRead(op, kind, okMsg, fail) ==
    LET key == RefKey(kind)
        out == ReadOutcome(cache, key, CACHE_TTL, okMsg, okMsg \o " from cache",
                           RefList(kind), FALSE, fail)
    IN
    /\ Served
    /\ FailReached(fail, ReadCalls(cache, key))
    /\ cache' = out.cache
    /\ resp' = out.resp
    /\ trace' = Trace(op, "", key, key \in DOMAIN cache,
                      out.dbCalls, out.setexCalls, <<>>, {}, out.failed, "")
    /\ UNCHANGED <<db, created, castsFilter, query, findQuery>>

getCity(fail) == RefRead("getCity", "cities", "Cities fetched successfully", fail)
getState(fail) == RefRead("getState", "states", "States fetched successfully", fail)
getPropertyType(fail) ==
    RefRead("getPropertyType", "propertyTypes", "Property Types fetched successfully", fail)
getPropertyTag(fail) ==
    RefRead("getPropertyTag", "propertyTags", "Property Tags fetched successfully", fail)
getAmenity(fail) == RefRead("getAmenity", "amenities", "Amenities fetched successfully", fail)

\* an entry that is kept however old it is
Expire_Keep(k) ==
    /\ k \in DOMAIN cache
    /\ UNCHANGED <<db, created, castsFilter, cache, resp, trace, query, findQuery, served,
                   rd, wr, raced>>

\* a cache entry outlives its TTL: Redis drops it
Expire(k) ==
    /\ k \in DOMAIN cache
    /\ cache' = [j \in (DOMAIN cache) \ {k} |-> cache[j]]
    /\ UNCHANGED <<db, created, castsFilter, resp, trace, query, findQuery, served,
                   rd, wr, raced>>

(***************************************************************************)
(* Write path and invalidation                                             *)
(***************************************************************************)
\* the body spread after the three fields instead of before them
PropertyData_BodyLast(body, t, u) ==
    Spread(("id" :> Str(ClockStr[t + 1]))
           @@ ("listerId" :> Str(u))
           @@ ("isVerified" :> Bool(FALSE)), body)

\* { ...req.body, id: Date.now().toString(), listerId: req.user.id, isVerified: false }
PropertyData(body, t, u) ==
    Spread(body, ("id" :> Str(ClockStr[t + 1]))
                 @@ ("listerId" :> Str(u))
                 @@ ("isVerified" :> Bool(FALSE)))

\* a delete filter on the identifier alone
DeleteQuery_NoOwner(pid, u) == ("_id" :> ObjectId(Str(pid)))

\* { _id: propertyId, listerId: new ObjectId(req.user.id) }
DeleteQuery(pid, u) == ("_id" :> Str(pid)) @@ ("listerId" :> ObjectId(Str(u)))

\* an update filter on the identifier alone
UpdateQuery_NoOwner(pid, u) == ("_id" :> ObjectId(Str(pid)))

\* { _id: new ObjectId(propertyId), listerId: new ObjectId(req.user.id) }
UpdateQuery(pid, u) == ("_id" :> ObjectId(Str(pid))) @@ ("listerId" :> ObjectId(Str(u)))

\* a delete that invalidates the own list of the other caller
DeleteDels_OtherCaller(u) ==
    <<PatternArg, MyPropertiesKey(CHOOSE v \in UserIds : v # u)>>

\* the keys deleteProperty passes to redis.del, in order
DeleteDels(u) == <<PatternArg, MyPropertiesKey(u)>>
\* an update that invalidates the search entries only
UpdateDels_SearchOnly(u) == <<PatternArg>>

\* the keys updateProperty passes to redis.del, in order
UpdateDels(u) == <<PatternArg, MyPropertiesKey(u)>>

\* the awaited redis.del calls of a handler, one after the other; the call named
\* by fail ("del1", "del2") throws and the rest are not made
Invalidate(c, dels, fail) ==
    LET failAt == IF fail = "del1" THEN 1 ELSE IF fail = "del2" THEN 2 ELSE 0
        done == IF failAt = 0 \/ failAt > Len(dels) THEN Len(dels) ELSE failAt - 1
    IN
    [cache |-> IF done = 0 THEN c
               ELSE IF done = 1 THEN RedisDel(c, dels[1])
               ELSE RedisDel(RedisDel(c, dels[1]), dels[2]),
     ok |-> done = Len(dels),
     calls |-> IF done = Len(dels) THEN dels ELSE SubSeq(dels, 1, done + 1)]

\* what the request is about, read off the collection itself
OwnershipCase(coll, pid, u) ==
    IF pid \notin Hex24 THEN "malformed"
    ELSE IF \E i \in 1..Len(coll) : coll[i]["_id"] = Oid(pid) /\ coll[i].listerId = Oid(u)
    THEN "owner"
    ELSE IF \E i \in 1..Len(coll) : coll[i]["_id"] = Oid(pid) THEN "nonowner"
    ELSE "missing"

\* what queries.deleteProperty(deleteQuery) finds: -1 when the call rejects, 0 when
\* no document matches, else the position of the document it deletes
DeleteTarget(coll, pid, u, casts) ==
    IF QueryThrows(DeleteQuery(pid, u), casts) THEN -1
    ELSE FirstMatch(coll, DeleteQuery(pid, u), casts)

\* what updateProperty finds: -1 when new ObjectId(propertyId) throws or the call
\* rejects, 0 when no document matches, else the position of the document it updates
UpdateTarget(coll, pid, u, casts) ==
    IF FilterThrows(UpdateQuery(pid, u)) \/ QueryThrows(UpdateQuery(pid, u), casts) THEN -1
    ELSE FirstMatch(coll, UpdateQuery(pid, u), casts)

postProperty(u, body, fail) ==
    LET propertyData == PropertyData(body, created, u)
        result == Created(propertyData, created)
        inv == Invalidate(cache, <<PatternArg>>, fail)
    IN
    /\ Served
    /\ FailReached(fail, <<"query", "del1">>)
    /\ created < MaxProps
    /\ UNCHANGED <<castsFilter, query, findQuery>>
    /\ IF fail = "query" THEN
            /\ UNCHANGED <<db, created, cache>>
            /\ resp' = NextErr("StoreError")
            /\ trace' = Trace("postProperty", u, NoKey, FALSE, 1, 0, <<>>, {}, TRUE, "create")
       ELSE
            /\ db' = Append(db, result)
            /\ created' = created + 1
            /\ cache' = inv.cache
            /\ resp' = IF inv.ok
                       THEN ResJson(201, "Property listed successfully", WireObj(result))
                       ELSE NextErr("StoreError")
            /\ trace' = Trace("postProperty", u, NoKey, FALSE, 1, 0,
                              inv.calls,
                              (DOMAIN cache) \ (DOMAIN inv.cache), ~inv.ok, "create")

deleteProperty(u, pid, fail) ==
    LET i == DeleteTarget(db, pid, u, castsFilter)
        inv == Invalidate(cache, DeleteDels(u), fail)
        case == OwnershipCase(db, pid, u)
    IN
    /\ Served
    /\ FailReached(fail, IF i <= 0 THEN <<"query">> ELSE <<"query", "del1", "del2">>)
    /\ UNCHANGED <<created, castsFilter, query, findQuery>>
    /\ IF fail = "query" \/ i = -1 THEN
            /\ UNCHANGED <<db, cache>>
            /\ resp' = NextErr(IF fail = "query" THEN "StoreError" ELSE "CastError")
            /\ trace' = Trace("deleteProperty", u, NoKey, FALSE, 1, 0, <<>>, {}, TRUE, case)
       ELSE IF i = 0 THEN
            /\ UNCHANGED <<db, cache>>
            /\ resp' = ResJson(404,
                   "Property not found or you don't have permission to delete it", Null)
            /\ trace' = Trace("deleteProperty", u, NoKey, FALSE, 1, 0, <<>>, {}, FALSE, case)
       ELSE
            /\ db' = RemoveAt(db, i)
            /\ cache' = inv.cache
            /\ resp' = IF inv.ok
                       THEN ResJson(200, "Property deleted successfully", WireObj(db[i]))
                       ELSE NextErr("StoreError")
            /\ trace' = Trace("deleteProperty", u, NoKey, FALSE, 1, 0,
                              inv.calls,
                              (DOMAIN cache) \ (DOMAIN inv.cache), ~inv.ok, case)

updateProperty(u, pid, updateData, fail) ==
    LET i == UpdateTarget(db, pid, u, castsFilter)
        inv == Invalidate(cache, UpdateDels(u), fail)
        case == OwnershipCase(db, pid, u)
    IN
    /\ Served
    /\ FailReached(fail, IF i = -1 THEN <<>>
                         ELSE IF i <= 0 THEN <<"query">>
                         ELSE <<"query", "del1", "del2">>)
    /\ UNCHANGED <<created, castsFilter, query, findQuery>>
    /\ IF i = -1 THEN
            /\ UNCHANGED <<db, cache>>
            /\ resp' = NextErr("BSONError")
            /\ trace' = Trace("updateProperty", u, NoKey, FALSE, 0, 0, <<>>, {}, FALSE, case)
       ELSE IF fail = "query" THEN
            /\ UNCHANGED <<db, cache>>
            /\ resp' = NextErr("StoreError")
            /\ trace' = Trace("updateProperty", u, NoKey, FALSE, 1, 0, <<>>, {}, TRUE, case)
       ELSE IF i = 0 THEN
            /\ UNCHANGED <<db, cache>>
            /\ resp' = ResJson(404,
                   "Property not found or you don't have permission to update it", Null)
            /\ trace' = Trace("updateProperty", u, NoKey, FALSE, 1, 0, <<>>, {}, FALSE, case)
       ELSE
            /\ db' = [db EXCEPT ![i] = Updated(db[i], updateData)]
            /\ cache' = inv.cache
            /\ resp' = IF inv.ok
                       THEN ResJson(200, "Property updated successfully",
                                    WireObj(Updated(db[i], updateData)))
                       ELSE NextErr("StoreError")
            /\ trace' = Trace("updateProperty", u, NoKey, FALSE, 1, 0,
                              inv.calls,
                              (DOMAIN cache) \ (DOMAIN inv.cache), ~inv.ok, case)

(***************************************************************************)
(* Requests of the model                                                   *)
(***************************************************************************)
\* req.params.id: the identifiers the store hands out, and a malformed one
PathIds == {PidStr[i] : i \in 1..MaxProps} \cup {"bad"}

\* req.body of a create: a plain listing, and one carrying the protected fields
PostBodies ==
    {("price" :> Num(1)),
     ("price" :> Num(2)) @@ ("id" :> Str("x")) @@ ("listerId" :> Str("u2"))
        @@ ("isVerified" :> Bool(TRUE))}

\* req.body of an update
UpdateBodies ==
    {("price" :> Num(2)),
     ("isVerified" :> Bool(TRUE)) @@ ("listerId" :> Str("u2"))}

\* req.query of a search in the request specification
SearchQueries ==
    {NoQuery,
     [NoQuery EXCEPT !.minPrice = Str("2")],
     [NoQuery EXCEPT !.typeId = Str("bad")]}

WriteFails == {"none", "query", "del1", "del2"}

Next ==
    \/ \E q \in SearchQueries, fail \in ReadFails : getProperties(q, fail)
    \/ \E u \in UserIds, fail \in ReadFails : getMyProperties(u, fail)
    \/ \E u \in UserIds, body \in PostBodies, fail \in WriteFails :
            postProperty(u, body, fail)
    \/ \E u \in UserIds, pid \in PathIds, fail \in WriteFails : deleteProperty(u, pid, fail)
    \/ \E u \in UserIds, pid \in PathIds, body \in UpdateBodies, fail \in WriteFails :
            updateProperty(u, pid, body, fail)
    \/ \E fail \in ReadFails : getCity(fail)
    \/ \E fail \in ReadFails : getState(fail)
    \/ \E fail \in ReadFails : getPropertyType(fail)
    \/ \E fail \in ReadFails : getPropertyTag(fail)
    \/ \E fail \in ReadFails : getAmenity(fail)
    \/ \E k \in DOMAIN cache : Expire(k)

Spec == Init /\ [][Next]_vars

(***************************************************************************)
(* Requests interleaved at their awaits: a search and a write in flight at *)
(* the same time, each advancing one awaited call per step                 *)
(***************************************************************************)
\* a populate that queries the collection again instead of using its local
SearchResult_Reread(r, coll, casts) == Find(coll, r.f, casts)

\* the local `result` of the search, held across the await of redis.setex
SearchResult(r, coll, casts) == r.result

\* a write persists while search r holds a result it has not cached yet
Overtake(r, coll) ==
    IF r.pc = "queried" /\ r.seen = "none"
    THEN [r EXCEPT !.seen = "persisted", !.before = coll]
    ELSE r

\* status and message of a write's success response
SuccessOf(op) ==
    CASE op = "postProperty" -> [status |-> 201, message |-> "Property listed successfully"]
      [] op = "updateProperty" -> [status |-> 200, message |-> "Property updated successfully"]
      [] OTHER -> [status |-> 200, message |-> "Property deleted successfully"]

\* getProperties up to the return of `await redis.get(cacheKey)`
getProperties_get(q, fail) ==
    LET f == FindQuery(q)
        key == PropertiesKey(f)
        cached == RedisGet(cache, key)
    IN
    /\ rd.pc = "idle"
    /\ Started
    /\ FilterThrows(f) => ~fail
    /\ query' = q
    /\ findQuery' = f
    /\ UNCHANGED <<db, created, castsFilter, cache, wr, raced>>
    /\ IF FilterThrows(f) THEN
            /\ rd' = rd
            /\ resp' = NextErr("BSONError")
            /\ trace' = Trace("getProperties", "", NoKey, FALSE, 0, 0, <<>>, {}, FALSE, "")
       ELSE IF fail THEN
            /\ rd' = rd
            /\ resp' = NextErr("StoreError")
            /\ trace' = Trace("getProperties", "", key, key \in DOMAIN cache,
                              0, 0, <<>>, {}, TRUE, "")
       ELSE IF Truthy(cached) THEN
            /\ rd' = rd
            /\ resp' = ResJson(200, "Properties fetched successfully from cache",
                               WireList(JSONParse(cached)))
            /\ trace' = Trace("getProperties", "", key, TRUE, 0, 0, <<>>, {}, FALSE, "")
       ELSE
            /\ rd' = [NoRead EXCEPT !.pc = "got", !.f = f, !.key = key]
            /\ UNCHANGED <<resp, trace>>

\* from there to the return of `await queries.getProperties(findQuery)`
getProperties_query(fail) ==
    /\ rd.pc = "got"
    /\ UNCHANGED <<db, created, castsFilter, cache, query, findQuery, served, wr, raced>>
    /\ IF fail \/ QueryThrows(rd.f, castsFilter) THEN
            /\ rd' = NoRead
            /\ resp' = NextErr(IF fail THEN "StoreError" ELSE "CastError")
            /\ trace' = Trace("getProperties", "", rd.key, FALSE, 1, 0, <<>>, {}, TRUE, "")
       ELSE
            /\ rd' = [rd EXCEPT !.pc = "queried", !.result = Find(db, rd.f, castsFilter)]
            /\ UNCHANGED <<resp, trace>>

\* from there to the response: `await redis.setex(...)` and res.status(200).json
getProperties_setex(fail) ==
    LET result == SearchResult(rd, db, castsFilter) IN
    /\ rd.pc = "queried"
    /\ rd' = NoRead
    /\ UNCHANGED <<db, created, castsFilter, query, findQuery, served, wr>>
    /\ IF fail THEN
            /\ UNCHANGED <<cache, raced>>
            /\ resp' = NextErr("StoreError")
            /\ trace' = Trace("getProperties", "", rd.key, FALSE, 1, 1, <<>>, {}, TRUE, "")
       ELSE
            /\ cache' = RedisSetex(cache, rd.key, PROPERTY_CACHE_TTL, StringifyList(result))
            /\ resp' = ResJson(200, "Properties fetched successfully", WireList(result))
            /\ trace' = Trace("getProperties", "", rd.key, FALSE, 1, 1, <<>>, {}, FALSE, "")
            /\ raced' = IF rd.seen = "invalidated"
                        THEN [key |-> rd.key, value |-> StringifyList(result)]
                        ELSE raced

\* the write in flight after its persistence call returned
Persisted(op, u, dels, out, case) ==
    [pc |-> "persisted", op |-> op, user |-> u, dels |-> dels, out |-> out,
     calls |-> <<>>, evicted |-> {}, case |-> case,
     first |-> (rd.pc = "queried" /\ rd.seen = "none")]

\* postProperty up to the return of `await queries.createProperty(propertyData)`
postProperty_create(u, body, fail) ==
    LET result == Created(PropertyData(body, created, u), created) IN
    /\ wr.pc = "idle"
    /\ Started
    /\ created < MaxProps
    /\ UNCHANGED <<castsFilter, cache, query, findQuery, raced>>
    /\ IF fail THEN
            /\ UNCHANGED <<db, created, rd, wr>>
            /\ resp' = NextErr("StoreError")
            /\ trace' = Trace("postProperty", u, NoKey, FALSE, 1, 0, <<>>, {}, TRUE, "create")
       ELSE
            /\ db' = Append(db, result)
            /\ created' = created + 1
            /\ wr' = Persisted("postProperty", u, <<PatternArg>>, result, "create")
            /\ rd' = Overtake(rd, db)
            /\ UNCHANGED <<resp, trace>>

\* updateProperty up to the return of `await queries.updateProperty(...)`, or to
\* its 404 response
updateProperty_update(u, pid, updateData, fail) ==
    LET i == UpdateTarget(db, pid, u, castsFilter)
        case == OwnershipCase(db, pid, u)
    IN
    /\ wr.pc = "idle"
    /\ Started
    /\ i = -1 => ~fail
    /\ UNCHANGED <<created, castsFilter, cache, query, findQuery, raced>>
    /\ IF i = -1 THEN
            /\ UNCHANGED <<db, rd, wr>>
            /\ resp' = NextErr("BSONError")
            /\ trace' = Trace("updateProperty", u, NoKey, FALSE, 0, 0, <<>>, {}, FALSE, case)
       ELSE IF fail THEN
            /\ UNCHANGED <<db, rd, wr>>
            /\ resp' = NextErr("StoreError")
            /\ trace' = Trace("updateProperty", u, NoKey, FALSE, 1, 0, <<>>, {}, TRUE, case)
       ELSE IF i = 0 THEN
            /\ UNCHANGED <<db, rd, wr>>
            /\ resp' = ResJson(404,
                   "Property not found or you don't have permission to update it", Null)
            /\ trace' = Trace("updateProperty", u, NoKey, FALSE, 1, 0, <<>>, {}, FALSE, case)
       ELSE
            /\ db' = [db EXCEPT ![i] = Updated(db[i], updateData)]
            /\ wr' = Persisted("updateProperty", u, UpdateDels(u),
                               Updated(db[i], updateData), case)
            /\ rd' = Overtake(rd, db)
            /\ UNCHANGED <<resp, trace>>

\* deleteProperty up to the return of `await queries.deleteProperty(deleteQuery)`,
\* or to its 404 response
deleteProperty_delete(u, pid, fail) ==
    LET i == DeleteTarget(db, pid, u, castsFilter)
        case == OwnershipCase(db, pid, u)
    IN
    /\ wr.pc = "idle"
    /\ Started
    /\ UNCHANGED <<created, castsFilter, cache, query, findQuery, raced>>
    /\ IF fail \/ i = -1 THEN
            /\ UNCHANGED <<db, rd, wr>>
            /\ resp' = NextErr(IF fail THEN "StoreError" ELSE "CastError")
            /\ trace' = Trace("deleteProperty", u, NoKey, FALSE, 1, 0, <<>>, {}, TRUE, case)
       ELSE IF i = 0 THEN
            /\ UNCHANGED <<db, rd, wr>>
            /\ resp' = ResJson(404,
                   "Property not found or you don't have permission to delete it", Null)
            /\ trace' = Trace("deleteProperty", u, NoKey, FALSE, 1, 0, <<>>, {}, FALSE, case)
       ELSE
            /\ db' = RemoveAt(db, i)
            /\ wr' = Persisted("deleteProperty", u, DeleteDels(u), db[i], case)
            /\ rd' = Overtake(rd, db)
            /\ UNCHANGED <<resp, trace>>

\* the next `await redis.del(...)` of the write in flight; after the last one the
\* success response
write_del(fail) ==
    LET k == Head(wr.dels)
        calls == Append(wr.calls, k)
        evicted == wr.evicted \cup ({k} \cap DOMAIN cache)
    IN
    /\ wr.pc = "persisted"
    /\ UNCHANGED <<db, created, castsFilter, query, findQuery, served, raced>>
    /\ IF fail THEN
            /\ UNCHANGED <<cache, rd>>
            /\ wr' = NoWrite
            /\ resp' = NextErr("StoreError")
            /\ trace' = Trace(wr.op, wr.user, NoKey, FALSE, 1, 0, calls, wr.evicted,
                              TRUE, wr.case)
       ELSE
            /\ cache' = RedisDel(cache, k)
            /\ IF Len(wr.dels) = 1 THEN
                    /\ wr' = NoWrite
                    /\ rd' = IF wr.first /\ rd.seen = "persisted"
                             THEN [rd EXCEPT !.seen = "invalidated"]
                             ELSE rd
                    /\ resp' = ResJson(SuccessOf(wr.op).status, SuccessOf(wr.op).message,
                                       WireObj(wr.out))
                    /\ trace' = Trace(wr.op, wr.user, NoKey, FALSE, 1, 0, calls, evicted,
                                      FALSE, wr.case)
               ELSE
                    /\ wr' = [wr EXCEPT !.dels = Tail(wr.dels), !.calls = calls,
                                        !.evicted = evicted]
                    /\ UNCHANGED <<rd, resp, trace>>

NextRace ==
    \/ \E q \in SearchQueries, fail \in BOOLEAN : getProperties_get(q, fail)
    \/ \E fail \in BOOLEAN : getProperties_query(fail)
    \/ \E fail \in BOOLEAN : getProperties_setex(fail)
    \/ \E u \in UserIds, body \in PostBodies, fail \in BOOLEAN :
            postProperty_create(u, body, fail)
    \/ \E u \in UserIds, pid \in PathIds, body \in UpdateBodies, fail \in BOOLEAN :
            updateProperty_update(u, pid, body, fail)
    \/ \E u \in UserIds, pid \in PathIds, fail \in BOOLEAN : deleteProperty_delete(u, pid, fail)
    \/ \E fail \in BOOLEAN : write_del(fail)
    \/ \E k \in DOMAIN cache : Expire(k)

SpecRace == Init /\ [][NextRace]_vars

(***************************************************************************)
(* The interleaved requests with entries that do expire: Redis drops every *)
(* entry stored by SETEX once its seconds have run out                     *)
(***************************************************************************)
\* the keys a search or an own-properties read of the model can store under
SearchKeys ==
    {PropertiesKey(FindQuery(q)) : q \in {x \in SearchQueries : ~FilterThrows(FindQuery(x))}}
LiveKeys == SearchKeys \cup {MyPropertiesKey(u) : u \in UserIds}

NextLive ==
    \/ NextRace
    \/ \E u \in UserIds, fail \in ReadFails : getMyProperties(u, fail)

SpecLive == Init /\ [][NextLive]_vars /\ \A k \in LiveKeys : WF_vars(Expire(k))

(***************************************************************************)
(* Searches alone over a collection that holds a property: which entry a    *)
(* search is answered with                                                 *)
(***************************************************************************)
\* req.query of the searches: no filter, price bounds that are a number, not a
\* number and the infinite number, and a malformed identifier
KeyQueries ==
    SearchQueries
    \cup {[NoQuery EXCEPT !.maxPrice = Str("2")],
          [NoQuery EXCEPT !.maxPrice = Str("abc")],
          [NoQuery EXCEPT !.maxPrice = Str("Infinity")]}

\* u1 has listed one property and nothing is cached
InitKeys ==
    /\ db = <<Created(PropertyData(("price" :> Num(1)), 0, "u1"), 0)>>
    /\ created = 1
    /\ castsFilter \in BOOLEAN
    /\ cache = EmptyObj
    /\ resp = NoResp
    /\ trace = NoTrace
    /\ query = NoQuery
    /\ findQuery = EmptyObj
    /\ served = 0
    /\ rd = NoRead
    /\ wr = NoWrite
    /\ raced = NoRace

NextKeys ==
    \/ \E q \in KeyQueries, fail \in ReadFails : getProperties(q, fail)
    \/ \E k \in DOMAIN cache : Expire(k)

SpecKeys == InitKeys /\ [][NextKeys]_vars

(***************************************************************************)
(* The filter builder on its own: every search query of the bounded set    *)
(***************************************************************************)
\* the values a scalar parameter takes: absent, present but empty, a value
ScalarValues(p) ==
    IF p \in {"listingType", "furnished"}
    THEN {Undefined, Str(""), Str("rent")}
    ELSE {Undefined, Str(""), Str("2")}

\* the values the other parameters take when present
OtherValues(p) ==
    CASE p \in {"typeId", "stateId", "cityId"} -> {Str("a1"), Str("bad")}
      [] p = "title" -> {Str("villa")}
      [] p = "availableFrom" -> {Str("2024-01-01"), Str("soon")}
      [] OTHER -> {Str(""), Arr(<<Str("")>>),
                   Str("a1"), Arr(<<Str("a1")>>), Arr(<<Str("a1"), Str("a2")>>)}

InitFilter ==
    /\ db = <<>>
    /\ created = 0
    /\ castsFilter = FALSE
    /\ cache = EmptyObj
    /\ resp = NoResp
    /\ trace = NoTrace
    /\ findQuery = EmptyObj
    /\ served = 0
    /\ rd = NoRead
    /\ wr = NoWrite
    /\ raced = NoRace
    /\ \E S \in SUBSET OtherParams :
          /\ Cardinality(S) <= MaxOther
          /\ \E sc \in [ScalarParams -> {Undefined, Str(""), Str("2"), Str("rent")}] :
             \E ot \in [S -> UNION {OtherValues(p) : p \in OtherParams}] :
                /\ \A p \in ScalarParams : sc[p] \in ScalarValues(p)
                /\ \A p \in S : ot[p] \in OtherValues(p)
                /\ query = [p \in Params |-> IF p \in ScalarParams THEN sc[p]
                                             ELSE IF p \in S THEN ot[p] ELSE Undefined]

\* lines 8-52 of getProperties applied to the query
BuildFindQuery ==
    /\ trace.op = "none"
    /\ findQuery' = FindQuery(query)
    /\ trace' = [trace EXCEPT !.op = "FindQuery"]
    /\ UNCHANGED <<db, created, castsFilter, cache, resp, query, served, rd, wr, raced>>

NextFilter == BuildFindQuery

SpecFilter == InitFilter /\ [][NextFilter]_vars

(***************************************************************************)
(* Properties                                                              *)
(***************************************************************************)
ReadOps ==
    {"getProperties", "getMyProperties", "getCity", "getState", "getPropertyType",
     "getPropertyTag", "getAmenity"}
WriteOps == {"postProperty", "updateProperty", "deleteProperty"}
OwnerScopedOps == {"updateProperty", "deleteProperty"}

\* the request got a success response
Succeeded(r) == r.kind = "json" /\ r.status \in {200, 201}

\* this step is one request being handled
RequestStep == served' = served + 1

HitMessages ==
    {"Properties fetched successfully from cache",
     "My properties fetched successfully from cache",
     "Cities fetched successfully from cache",
     "States fetched successfully from cache",
     "Property Types fetched successfully from cache",
     "Property Tags fetched successfully from cache",
     "Amenities fetched successfully from cache"}

\* the documents of the collection owned by u, as a response carries them
OwnedBy(coll, u) == WireList(SelectSeq(coll, LAMBDA rec : rec.listerId = Oid(u)))

\* C1: a successful create, update or delete leaves no search entry
\* ('properties:' key) that was cached before it, and a search that follows the
\* write with no request in between is not answered from the cache.
C1_NoStaleSearchAfterWrite ==
    [][/\ (RequestStep /\ trace'.op \in WriteOps /\ Succeeded(resp'))
            => \A k \in DOMAIN cache : k.prefix = "properties:" => k \notin DOMAIN cache'
       /\ (trace.op \in WriteOps /\ Succeeded(resp) /\ RequestStep
           /\ trace'.op = "getProperties")
            => resp'.message \notin HitMessages]_vars

\* C2: a read that finds an entry under its key answers with the cached value
\* and makes no persistence call and no cache write; a read that finds none makes
\* exactly one persistence query and one cache write, under that same key, and
\* the entry it writes is the result it answers with.
C2_HitNoStoreMissOnePopulate ==
    [][(RequestStep /\ trace'.op \in ReadOps /\ trace'.key # NoKey /\ ~trace'.failed)
        => IF trace'.key \in DOMAIN cache
           THEN /\ Succeeded(resp')
                /\ resp'.data = WireList(JSONParse(cache[trace'.key].value))
                /\ trace'.dbCalls = 0
                /\ trace'.setexCalls = 0
                /\ cache' = cache
           ELSE /\ Succeeded(resp')
                /\ trace'.dbCalls = 1
                /\ trace'.setexCalls = 1
                /\ DOMAIN cache' = (DOMAIN cache) \cup {trace'.key}
                /\ \A k \in DOMAIN cache : cache'[k] = cache[k]
                /\ WireList(JSONParse(cache'[trace'.key].value)) = resp'.data]_vars

\* a my-properties read answered from the cache with a non-empty list
C2_Witness ==
    /\ trace.op = "getMyProperties"
    /\ trace.hit
    /\ trace.dbCalls = 0
    /\ Succeeded(resp)
    /\ Len(resp.data.v) > 0

\* C3: the same read issued twice in a row, with no write and no expiry in
\* between, returns the same data, and the second is a cache hit with no
\* persistence call; also when the data is the empty list.
C3_RepeatedReadIsHit ==
    [][(/\ trace.op \in ReadOps /\ Succeeded(resp)
        /\ trace.key \in DOMAIN cache
        /\ RequestStep
        /\ trace'.op = trace.op /\ trace'.key = trace.key /\ ~trace'.failed)
        => /\ Succeeded(resp')
           /\ resp'.data = resp.data
           /\ resp'.message \in HitMessages
           /\ trace'.dbCalls = 0]_vars

\* a search answered from the cache with the empty list
C3_Witness ==
    /\ trace.op = "getProperties"
    /\ trace.hit
    /\ Succeeded(resp)
    /\ resp.message \in HitMessages
    /\ resp.data.v = <<>>

\* C4: after a successful postProperty by c, a getMyProperties by c (no request
\* in between) returns a list that holds the created property with
\* isVerified = false and c as owner.
C4_CreateThenReadOwn ==
    [][(/\ trace.op = "postProperty" /\ Succeeded(resp)
        /\ RequestStep
        /\ trace'.op = "getMyProperties" /\ trace'.user = trace.user /\ Succeeded(resp'))
        => \E i \in 1..Len(resp'.data.v) :
              /\ resp'.data.v[i] = resp.data.v
              /\ resp'.data.v[i].isVerified = Bool(FALSE)
              /\ resp'.data.v[i].listerId = Str(trace.user)]_vars

\* C5: a successful updateProperty or deleteProperty by c leaves no entry under
\* myProperties:<c>, and c's next getMyProperties queries the persistence store
\* and returns c's properties as they are after the write.
C5_OwnEntryEvicted ==
    [][/\ (RequestStep /\ trace'.op \in OwnerScopedOps /\ Succeeded(resp'))
            => MyPropertiesKey(trace'.user) \notin DOMAIN cache'
       /\ (/\ trace.op \in OwnerScopedOps /\ Succeeded(resp)
           /\ RequestStep
           /\ trace'.op = "getMyProperties" /\ trace'.user = trace.user
           /\ ~trace'.failed)
            => /\ trace'.dbCalls = 1
               /\ resp'.data = OwnedBy(db, trace.user)]_vars

\* a successful update or delete that removed the caller's cached own list
C5_Witness ==
    /\ trace.op \in OwnerScopedOps
    /\ Succeeded(resp)
    /\ MyPropertiesKey(trace.user) \in trace.evicted

NotFoundMessage(op) ==
    IF op = "updateProperty"
    THEN "Property not found or you don't have permission to update it"
    ELSE "Property not found or you don't have permission to delete it"

\* C6: updateProperty and deleteProperty answer a caller who does not own an
\* existing property exactly as they answer an identifier no property has: the
\* 404 response with the operation's fixed message and no data.
C6_NonOwnerLooksMissing ==
    (trace.op \in OwnerScopedOps /\ trace.case \in {"nonowner", "missing"} /\ ~trace.failed)
        => resp = ResJson(404, NotFoundMessage(trace.op), Null)

\* an update by a caller who does not own the existing property
C6_Witness ==
    /\ trace.op = "updateProperty"
    /\ trace.case = "nonowner"
    /\ resp.status = 404

\* C7: a request in which a persistence or cache call failed ends in
\* next(error) and sends no response of its own.
C7_StoreFailureForwarded ==
    trace.failed => resp.kind = "next" /\ resp.data = Null

\* a search whose cache population failed after the persistence query
C7_Witness ==
    /\ trace.op = "getProperties"
    /\ trace.failed
    /\ trace.dbCalls = 1
    /\ trace.setexCalls = 1
    /\ resp.kind = "next"

\* C8: the record postProperty persists has the caller as owner, isVerified
\* false and the clock's identifier, whatever the body carries.
C8_BodyCannotOverride ==
    [][(RequestStep /\ trace'.op = "postProperty" /\ Len(db') = Len(db) + 1)
        => /\ db'[Len(db')].listerId = Oid(trace'.user)
           /\ db'[Len(db')].isVerified = Bool(FALSE)
           /\ \E t \in 1..Len(ClockStr) : db'[Len(db')].id = Str(ClockStr[t])]_vars

\* u1 created a property from the body that carries id, listerId and isVerified
\* (the body with price 2)
C8_Witness ==
    /\ trace.op = "postProperty"
    /\ trace.user = "u1"
    /\ Succeeded(resp)
    /\ Len(db) > 0
    /\ db[Len(db)].price = Num(2)
    /\ db[Len(db)].listerId = Oid("u1")

\* the filter was built without an exception
Built == trace.op = "FindQuery" /\ ~FilterThrows(findQuery)

ScalarKeys == {"price", "bedrooms", "bathrooms", "rating", "listingType", "furnished"}
Present(p) == query[p] # Undefined
NonEmpty(p) == query[p] # Undefined /\ query[p] # Str("")

\* C9, as claimed: the filter constrains exactly the scalar parameters that are
\* present in the query.
C9_ConstraintIffPresent ==
    Built =>
        /\ "price" \in DOMAIN findQuery <=> (Present("minPrice") \/ Present("maxPrice"))
        /\ "bedrooms" \in DOMAIN findQuery <=> Present("minBedrooms")
        /\ "bathrooms" \in DOMAIN findQuery <=> Present("minBathrooms")
        /\ "rating" \in DOMAIN findQuery <=> Present("minRating")
        /\ "listingType" \in DOMAIN findQuery <=> Present("listingType")
        /\ "furnished" \in DOMAIN findQuery <=> Present("furnished")

\* the inclusive lower bound the filter must hold for parameter p under key k
LowerBound(k, p) ==
    IF NonEmpty(p)
    THEN k \in DOMAIN findQuery /\ findQuery[k] = ("$gte" :> Num(2))
    ELSE k \notin DOMAIN findQuery

\* C9, amended: the filter constrains exactly the scalar parameters that are
\* present with a non-empty value: price by $gte/$lte with either bound alone,
\* bedrooms, bathrooms and rating by $gte, listingType and furnished by
\* equality; no other key appears unless its own parameter is given, and the
\* query with no non-empty parameter gives the empty filter.
C9_ConstraintIffNonEmpty ==
    Built =>
        /\ IF NonEmpty("minPrice") \/ NonEmpty("maxPrice")
           THEN /\ "price" \in DOMAIN findQuery
                /\ DOMAIN findQuery.price =
                      {o \in {"$gte", "$lte"} :
                          NonEmpty(IF o = "$gte" THEN "minPrice" ELSE "maxPrice")}
                /\ \A o \in DOMAIN findQuery.price : findQuery.price[o] = Num(2)
           ELSE "price" \notin DOMAIN findQuery
        /\ LowerBound("bedrooms", "minBedrooms")
        /\ LowerBound("bathrooms", "minBathrooms")
        /\ LowerBound("rating", "minRating")
        /\ \A p \in {"listingType", "furnished"} :
              IF NonEmpty(p) THEN p \in DOMAIN findQuery /\ findQuery[p] = query[p]
              ELSE p \notin DOMAIN findQuery
        /\ \A k \in (DOMAIN findQuery) \ ScalarKeys : k \in OtherParams /\ NonEmpty(k)
        /\ (\A p \in Params : ~NonEmpty(p)) => findQuery = EmptyObj

\* minPrice is present but empty and maxPrice has a value: only the upper bound
C9_Witness ==
    /\ Built
    /\ query.minPrice = Str("")
    /\ query.maxPrice = Str("2")
    /\ query.minBedrooms = Str("2")
    /\ findQuery.price = ("$lte" :> Num(2))

\* C10: for the same identifier and caller, deleteProperty matches a stored
\* record exactly when updateProperty does, answers 404 in the same cases, and
\* evicts the same cache entries on success.
C10_DeleteMatchesLikeUpdate ==
    \A u \in UserIds :
        /\ DeleteDels(u) = UpdateDels(u)
        /\ \A pid \in PropIds :
              DeleteTarget(db, pid, u, castsFilter) = UpdateTarget(db, pid, u, castsFilter)

PropertyReadOps == {"getProperties", "getMyProperties"}
RefKinds == {"cities", "states", "propertyTypes", "propertyTags", "amenities"}

\* the TTL constant the handler op passes to redis.setex
TtlOf(op) == IF op \in PropertyReadOps THEN PROPERTY_CACHE_TTL ELSE CACHE_TTL

\* C11: every entry a property search or a my-properties read writes carries
\* PROPERTY_CACHE_TTL, every entry a reference-list read writes carries
\* CACHE_TTL, and no entry of the cache is without an expiry.
C11_EntriesCarryClassTtl ==
    /\ \A k \in DOMAIN cache :
          /\ cache[k].ttl \in {PROPERTY_CACHE_TTL, CACHE_TTL}
          /\ k.prefix \in {"properties:", "myProperties:"}
                => cache[k].ttl = PROPERTY_CACHE_TTL
          /\ k.prefix \in RefKinds => cache[k].ttl = CACHE_TTL
    /\ (trace.op \in ReadOps /\ trace.setexCalls = 1 /\ ~trace.failed
        /\ trace.key \in DOMAIN cache)
            => cache[trace.key].ttl = TtlOf(trace.op)

\* a reference-list read has just populated its entry while a search entry is
\* cached too
C11_Witness ==
    /\ trace.op = "getCity"
    /\ trace.setexCalls = 1
    /\ ~trace.failed
    /\ RefKey("cities") \in DOMAIN cache
    /\ cache[RefKey("cities")].ttl = CACHE_TTL
    /\ \E k \in DOMAIN cache : k.prefix = "properties:" /\ cache[k].ttl = PROPERTY_CACHE_TTL

\* C12: when a write persists and invalidates between a search's persistence
\* query and its cache population, the search caches and returns the result of
\* the collection as it was before the write; the entry stays until it expires
\* or a redis.del names its key, and while it is there a later search with
\* that filter is answered with it from the cache.
C12_RacePopulatesPreWrite ==
    [][/\ (rd.pc = "queried" /\ rd.seen = "invalidated" /\ rd'.pc = "idle"
           /\ resp'.kind = "json")
            => /\ rd.key \in DOMAIN cache'
               /\ cache'[rd.key].value = StringifyList(Find(rd.before, rd.f, castsFilter))
               /\ resp'.data = WireList(Find(rd.before, rd.f, castsFilter))
               /\ raced'.key = rd.key
       /\ (raced.key \in DOMAIN cache /\ raced.key \notin DOMAIN cache')
            => \/ (served' = served /\ rd' = rd /\ wr' = wr)
               \/ (wr.pc = "persisted" /\ Head(wr.dels) = raced.key)
       /\ (raced.key \in DOMAIN cache /\ raced.key \in DOMAIN cache')
            => cache'[raced.key] = cache[raced.key]
       /\ (/\ raced.key \in DOMAIN cache
           /\ cache[raced.key].value = raced.value
           /\ served' = served + 1 /\ rd.pc = "idle" /\ rd' = rd /\ wr' = wr
           /\ trace'.op = "getProperties" /\ trace'.key = raced.key /\ ~trace'.failed)
            => /\ resp'.message = "Properties fetched successfully from cache"
               /\ resp'.data = WireList(JSONParse(raced.value))
               /\ trace'.dbCalls = 0]_vars

\* both requests have completed and a later search was answered from the cache
\* with the pre-write result, which is not what the collection now holds
C12_Witness ==
    /\ rd.pc = "idle"
    /\ wr.pc = "idle"
    /\ raced.key # NoKey
    /\ trace.op = "getProperties"
    /\ trace.hit
    /\ trace.key = raced.key
    /\ resp.data = WireList(JSONParse(raced.value))
    /\ resp.data # WireList(Find(db, findQuery, castsFilter))

\* the filter a search key was built from
FilterOf(k) ==
    FindQuery(CHOOSE q \in SearchQueries :
                ~FilterThrows(FindQuery(q)) /\ PropertiesKey(FindQuery(q)) = k)

\* what the persistence store now returns for the read that uses key k
KeyResult(k) ==
    IF k.prefix = "properties:" THEN Find(db, FilterOf(k), castsFilter)
    ELSE Find(db, ("listerId" :> Oid(k.rest.v)), castsFilter)

\* the entry under k holds something else than the store's current result
Diverges(k) == k \in DOMAIN cache /\ cache[k].value # StringifyList(KeyResult(k))
NoDivergence == \A k \in LiveKeys : ~Diverges(k)

\* this step sends the success response of a search or an own-properties read
ReadAnswered ==
    /\ trace'.op \in PropertyReadOps
    /\ Succeeded(resp')
    /\ \/ (served' = served + 1 /\ rd' = rd /\ wr' = wr)
       \/ (rd.pc = "queried" /\ rd'.pc = "idle")

\* C13: with entries that do expire, every entry is absent again and again, so
\* an entry that differs from the store's current result for its key is
\* eventually absent; eventually no entry differs any more; and a read answered
\* while no entry differs, and which no write overtook between its query and its
\* answer, returns the store's current result.
C13_DivergenceEnds ==
    /\ \A k \in LiveKeys : []<>(k \notin DOMAIN cache)
    /\ <>[]NoDivergence
    /\ [][(ReadAnswered /\ NoDivergence /\ rd.seen = "none")
            => resp'.data = WireList(KeyResult(trace'.key))]_vars

\* the entry a race left has expired, and the next search with that filter was
\* answered from the store with its current result, not the one the entry held
C13_Witness ==
    /\ raced.key # NoKey
    /\ trace.op = "getProperties"
    /\ trace.key = raced.key
    /\ ~trace.hit
    /\ Succeeded(resp)
    /\ resp.data = WireList(KeyResult(raced.key))
    /\ resp.data # WireList(JSONParse(raced.value))
    /\ ~Diverges(raced.key)

\* the last request was a search that built its filter and got a response
Searched == trace.op = "getProperties" /\ trace.key # NoKey /\ Succeeded(resp)

\* C14: two searches use the same cache key exactly when their resolved filters
\* are equal, so a search answered from the cache gets the result of its own
\* filter (the collection does not change in this specification); own-properties
\* keys of different callers differ, and no search key, own-properties key or
\* reference-list key is a key of another class.
C14_KeyIffFilter ==
    /\ Searched =>
          /\ trace.key = PropertiesKey(findQuery)
          /\ \A q \in KeyQueries :
                ~FilterThrows(FindQuery(q)) =>
                    (PropertiesKey(FindQuery(q)) = trace.key <=> FindQuery(q) = findQuery)
          /\ resp.data = WireList(Find(db, findQuery, castsFilter))
    /\ \A u, v \in UserIds : MyPropertiesKey(u) = MyPropertiesKey(v) => u = v
    /\ \A q \in KeyQueries, u \in UserIds, kind \in RefKinds :
          /\ PropertiesKey(FindQuery(q)) # MyPropertiesKey(u)
          /\ PropertiesKey(FindQuery(q)) # RefKey(kind)
          /\ MyPropertiesKey(u) # RefKey(kind)

ListParams == {"amenityIds", "tagIds"}

\* the query with the single value of p given as a one-element list
AsList(p) == [query EXCEPT ![p] = Arr(<<query[p]>>)]

\* the identifiers of RefIds in S, in some order, as a stored set of references
StoredSet(S) ==
    Arr(IF S = {} THEN <<>>
        ELSE IF Cardinality(S) = 1 THEN <<Oid(CHOOSE x \in S : TRUE)>>
        ELSE <<Oid("a1"), Oid("a2")>>)

\* the identifiers the filter lists for p
Listed(p) == {findQuery[p]["$all"].v[i].v : i \in 1..Len(findQuery[p]["$all"].v)}

\* the constraint on p is matched by exactly the sets that hold every listed value
RequiresAll(p) ==
    \A S \in SUBSET RefIds :
        Matches((p :> findQuery[p]), (p :> StoredSet(S)), castsFilter) <=> Listed(p) \subseteq S

\* C15, as claimed: for amenityIds and tagIds a single value v gives the filter
\* and the cache key that the one-element list [v] gives, and a list is matched
\* by exactly the properties whose set holds every listed identifier.
C15_SingleIsList ==
    trace.op = "FindQuery" =>
        \A p \in ListParams :
            /\ IsString(query[p]) =>
                  /\ findQuery = FindQuery(AsList(p))
                  /\ PropertiesKey(findQuery) = PropertiesKey(FindQuery(AsList(p)))
            /\ (Built /\ p \in DOMAIN findQuery) => RequiresAll(p)

\* C15, amended: the same for a single value that is not the empty string; the
\* empty string gives no constraint, the list holding it the BSONError.
C15_NonEmptySingleIsList ==
    trace.op = "FindQuery" =>
        \A p \in ListParams :
            /\ (IsString(query[p]) /\ query[p] # Str("")) =>
                  /\ findQuery = FindQuery(AsList(p))
                  /\ PropertiesKey(findQuery) = PropertiesKey(FindQuery(AsList(p)))
            /\ query[p] = Str("") =>
                  /\ p \notin DOMAIN findQuery
                  /\ FilterThrows(FindQuery(AsList(p)))
            /\ (Built /\ p \in DOMAIN findQuery) => RequiresAll(p)

\* a single amenity was normalised to the list that holds it
C15_Witness ==
    /\ Built
    /\ query.amenityIds = Str("a1")
    /\ findQuery.amenityIds = ("$all" :> Arr(<<Oid("a1")>>))
    /\ ~Matches(("amenityIds" :> findQuery.amenityIds),
                ("amenityIds" :> StoredSet({"a2"})), castsFilter)

\* C16: a create, update or delete that ends in next(error) leaves the
\* collection as it was, also when the persistence call succeeded and a
\* redis.del after it failed.
C16_ErrorLeavesStore ==
    [][(RequestStep /\ trace'.op \in WriteOps /\ resp'.kind = "next") => db' = db]_vars

\* C17: an updateProperty or deleteProperty that matches no record (no such
\* property, or the caller is not its owner) answers 404 and leaves the
\* collection and every cache entry as they were; it makes no redis.del call.
C17_NoMatchChangesNothing ==
    [][(/\ RequestStep
        /\ trace'.op \in OwnerScopedOps
        /\ (resp'.status = 404 \/ trace'.case \in {"nonowner", "missing"}))
        => /\ db' = db
           /\ cache' = cache
           /\ trace'.dels = <<>>
           /\ trace'.evicted = {}
           /\ (~trace'.failed => resp'.status = 404)]_vars

\* a caller whose own list is cached got 404 for a property of another lister
C17_Witness ==
    /\ trace.op \in OwnerScopedOps
    /\ trace.case = "nonowner"
    /\ resp.status = 404
    /\ MyPropertiesKey(trace.user) \in DOMAIN cache
    /\ Len(db) > 0

\* C18: no request changes the owner (listerId) or the isVerified flag of a
\* stored property: every property keeps the lister who created it and stays
\* unverified, so only that lister's updates and deletes ever match it.
C18_OwnerAndFlagKept ==
    [][/\ \A i \in 1..Len(db), j \in 1..Len(db') :
            db[i]["_id"] = db'[j]["_id"]
                => /\ db'[j].listerId = db[i].listerId
                   /\ db'[j].isVerified = db[i].isVerified
       /\ \A j \in 1..Len(db') : db'[j].isVerified = Bool(FALSE)]_vars

\* a key of another caller's own list, or of a reference list
ForeignTo(u, k) ==
    \/ k.prefix \in RefKinds
    \/ (k.prefix = "myProperties:" /\ k # MyPropertiesKey(u))

\* C19: a create, update or delete by caller c neither removes nor changes the
\* own-properties entry of any other caller, nor any reference-list entry.
C19_ForeignEntriesKept ==
    [][(RequestStep /\ trace'.op \in WriteOps)
        => /\ \A k \in DOMAIN cache :
                ForeignTo(trace'.user, k) => (k \in DOMAIN cache' /\ cache'[k] = cache[k])
           /\ \A k \in trace'.evicted : ~ForeignTo(trace'.user, k)]_vars

\* an update or delete succeeded and made both its redis.del calls while the
\* own list of another caller is cached
C19_Witness ==
    /\ trace.op \in OwnerScopedOps
    /\ Succeeded(resp)
    /\ trace.dels = <<PatternArg, MyPropertiesKey(trace.user)>>
    /\ \E u \in UserIds : u # trace.user /\ MyPropertiesKey(u) \in DOMAIN cache

====
